---- MODULE Spec2Model ----
(***************************************************************************)
(* Lenstra elliptic-curve factorisation (src/Lenstra): modular inversion   *)
(* with obstruction reporting, the affine group law over Z/mZ, the curve   *)
(* sampler and the search loop.                                            *)
(*                                                                         *)
(* Python values are modelled as follows.                                  *)
(*  - A Point object is a record [ID, x, y, modulus, ref].  ref is the     *)
(*    identity of the Python object: class Point defines no __eq__, so     *)
(*    `P == Q` in the source is object identity, PointEq below.            *)
(*  - A point built with ID=True holds x = y = float('inf') and modulus 1  *)
(*    (Point.py:26-27).  The float coordinates are represented by the ID   *)
(*    flag; the integer fields x, y of such a record are never read as     *)
(*    numbers.  Arithmetic on them gives nan in Python, and extGCD on nan  *)
(*    never leaves its while loop: this is the outcome halts = FALSE.      *)
(*  - A (exists, res) pair whose res is a Point or an int is a record      *)
(*    [halts, exists, val, inv], val being PtVal(p) or IntVal(n); inv      *)
(*    counts the calls of modInv.  An operator that may build a Point      *)
(*    takes the identity h the new object gets: double and add build at    *)
(*    most one, mult(P, k) uses h for P.inverse and h+1+2t, h+2+2t in the  *)
(*    t-th iteration of its loop.                                          *)
(***************************************************************************)
EXTENDS Integers, Sequences, FiniteSets, TLC

VARIABLES call, ret, pc, num, searching, res, i, j, haveCurve, P, curve,
          sample, genCalls, multCalls, firstObs, failedAt

apiVars == <<call, ret>>
lenstraVars == <<pc, num, searching, res, i, j, haveCurve, P, curve,
                 sample, genCalls, multCalls, firstObs, failedAt>>
vars == <<call, ret, pc, num, searching, res, i, j, haveCurve, P, curve,
          sample, genCalls, multCalls, firstObs, failedAt>>

(***************************************************************************)
(* Bounds of the model.                                                    *)
(***************************************************************************)
MaxAbsN == 12
MaxInvMod == 8
MaxMod == 9
MaxK == 9
MaxSumK == 5
MaxSumMod == 7
MaxEqMod == 3
MaxN == 9
MaxBound == 5
MaxEffortObs == 2
MaxEffortGen == 2

(***************************************************************************)
(* Python integer division and remainder (floor semantics).                *)
(***************************************************************************)
PyFloorDiv(a, b) == IF b > 0 THEN a \div b ELSE (-a) \div (-b)

PyMod(a, b) == a - b * PyFloorDiv(a, b)

(***************************************************************************)
(* helperFuncs.extGCD: the while loop, one iteration per unfolding.        *)
(***************************************************************************)
RECURSIVE ExtGCDLoop(_, _, _, _, _, _)
ExtGCDLoop(n, m, prevX, x, prevY, y) ==
    IF n = 0
    THEN <<prevX, prevY, m>>
    ELSE LET q == PyFloorDiv(m, n)
             r == PyMod(m, n)
         IN ExtGCDLoop(r, n, x, prevX - q * x, y, prevY - q * y)

ExtGCD(n, m) == ExtGCDLoop(n, m, 0, 1, 1, 0)

(***************************************************************************)
(* helperFuncs.modInv.                                                     *)
(***************************************************************************)
ModInvNoReduce(n, m) ==
    LET g == ExtGCD(PyMod(n, m), m)
    IN IF g[3] # 1
       THEN [exists |-> FALSE, res |-> g[3]]
       ELSE [exists |-> TRUE, res |-> g[1]]

ModInv(n, m) ==
    LET g == ExtGCD(PyMod(n, m), m)
    IN IF g[3] # 1
       THEN [exists |-> FALSE, res |-> g[3]]
       ELSE [exists |-> TRUE, res |-> PyMod(g[1], m)]

(***************************************************************************)
(* helperFuncs.factorial.                                                  *)
(***************************************************************************)
RECURSIVE factorial(_)
factorial(n) == IF n \in {0, 1} THEN 1 ELSE n * factorial(n - 1)

(***************************************************************************)
(* helperFuncs.isSmooth.                                                   *)
(***************************************************************************)
IsSmoothLinearB(a, b, m) == PyMod(64 * a^3 + 432 * b, m) # 0

IsSmooth(a, b, m) == PyMod(64 * a^3 + 432 * b^2, m) # 0

(***************************************************************************)
(* Point.Point: the constructor, the module-level object `identity` and    *)
(* the property `inverse`, which always builds a new object.               *)
(***************************************************************************)
InfCoord == 0

Point(x, y, modulus, ref) ==
    [ID |-> FALSE, x |-> PyMod(x, modulus), y |-> PyMod(y, modulus),
     modulus |-> modulus, ref |-> ref]

IdPoint(ref) ==
    [ID |-> TRUE, x |-> InfCoord, y |-> InfCoord, modulus |-> 1, ref |-> ref]

identity == IdPoint(0)

Inverse(Pt, ref) ==
    IF Pt.ID
    THEN IdPoint(ref)
    ELSE Point(Pt.x, IF Pt.y # 0 THEN Pt.modulus - Pt.y ELSE 0, Pt.modulus, ref)

(***************************************************************************)
(* `P == Q` on Point objects.  Point defines no __eq__, so Python compares *)
(* object identity.                                                        *)
(***************************************************************************)
PointEq(Pt, Qt) == Pt.ref = Qt.ref

(***************************************************************************)
(* The two kinds of value a `res` can hold, and the outcomes of a call.    *)
(***************************************************************************)
IntVal(n) == [isPt |-> FALSE, n |-> n, pt |-> identity]

PtVal(p) == [isPt |-> TRUE, n |-> 0, pt |-> p]

Returns(e, v, inv) ==
    [halts |-> TRUE, exists |-> e, val |-> v, inv |-> inv]

Diverges(inv) ==
    [halts |-> FALSE, exists |-> FALSE, val |-> IntVal(0), inv |-> inv]

(***************************************************************************)
(* EllipticCurve.EC.__init__.                                              *)
(***************************************************************************)
EC(a, b, modulus) ==
    [a |-> PyMod(a, modulus), b |-> PyMod(b, modulus), modulus |-> modulus]

(***************************************************************************)
(* helperFuncs.modularSlope.  With a float('inf') coordinate dx is inf or  *)
(* nan, `n %= m` in modInv makes it nan and extGCD loops forever.          *)
(***************************************************************************)
ModularSlope(Pt, Qt) ==
    IF Pt.ID \/ Qt.ID
    THEN [halts |-> FALSE, exists |-> FALSE, res |-> 0]
    ELSE LET dy == Qt.y - Pt.y
             dx == Qt.x - Pt.x
             modulus == Pt.modulus
             at == ModInv(dx, modulus)
         IN IF at.exists
            THEN [halts |-> TRUE, exists |-> TRUE, res |-> PyMod(dy * at.res, modulus)]
            ELSE [halts |-> TRUE, exists |-> FALSE, res |-> at.res]

(***************************************************************************)
(* EC.tangent.  For the point at infinity dy = 2*inf = inf, and modInv     *)
(* does not return (see ModularSlope).                                     *)
(***************************************************************************)
Tangent(ec, Pt) ==
    IF Pt.ID
    THEN [halts |-> FALSE, exists |-> FALSE, res |-> 0]
    ELSE LET dx == PyMod(3 * (Pt.x ^ 2) + ec.a, ec.modulus)
             dy == 2 * Pt.y
             at == ModInv(dy, ec.modulus)
         IN IF at.exists
            THEN [halts |-> TRUE, exists |-> TRUE, res |-> PyMod(dx * at.res, ec.modulus)]
            ELSE [halts |-> TRUE, exists |-> FALSE, res |-> at.res]

(***************************************************************************)
(* EC.__add_sumExists: the new Point gets the identity `ref`.              *)
(***************************************************************************)
AddSumExists(ec, Pt, Qt, slope, ref) ==
    LET resX == slope ^ 2 - Pt.x - Qt.x
        resY == slope * (Pt.x - resX) - Pt.y
    IN Point(resX, resY, ec.modulus, ref)

(***************************************************************************)
(* helperFuncs.isCurveInd and resCurveInd.  h is an unused identity for    *)
(* the temporary Q.inverse.  resCurveInd leaves `res` unbound when no      *)
(* branch applies; the CASE has no arm for that and its callers never ask. *)
(***************************************************************************)
IsCurveInd(Pt, Qt, k, h) ==
    (Pt.ID \/ Qt.ID \/ PointEq(Pt, Inverse(Qt, h))) /\ (k \in {-1, 0, 1})

ResCurveInd(Pt, Qt, k, h) ==
    CASE Pt.ID -> Qt
      [] ~Pt.ID /\ Qt.ID /\ k = 1 -> Pt
      [] ~Pt.ID /\ ~(Qt.ID /\ k = 1)
           /\ (PointEq(Pt, Inverse(Qt, h)) \/ k = 0) -> identity
      [] ~Pt.ID /\ ~(Qt.ID /\ k = 1)
           /\ ~(PointEq(Pt, Inverse(Qt, h)) \/ k = 0) /\ k = -1 -> Inverse(Pt, h)

(***************************************************************************)
(* EC.double.                                                              *)
(***************************************************************************)
Double(ec, Pt, h) ==
    IF PointEq(Pt, Inverse(Pt, h))
    THEN Returns(TRUE, PtVal(identity), 0)
    ELSE LET at == Tangent(ec, Pt)
         IN IF ~at.halts THEN Diverges(1)
            ELSE IF at.exists
            THEN Returns(TRUE, PtVal(AddSumExists(ec, Pt, Pt, at.res, h)), 1)
            ELSE Returns(FALSE, IntVal(at.res), 1)

(***************************************************************************)
(* EC.add.                                                                 *)
(***************************************************************************)
Add(ec, Pt, Qt, h) ==
    IF PointEq(Pt, Qt)
    THEN Double(ec, Pt, h)
    ELSE IF IsCurveInd(Pt, Qt, 1, h)
    THEN Returns(TRUE, PtVal(ResCurveInd(Pt, Qt, 1, h)), 0)
    ELSE LET at == ModularSlope(Pt, Qt)
         IN IF ~at.halts THEN Diverges(1)
            ELSE IF at.exists
            THEN Returns(TRUE, PtVal(AddSumExists(ec, Pt, Qt, at.res, h)), 1)
            ELSE Returns(FALSE, IntVal(at.res), 1)

(***************************************************************************)
(* EC.mult.  MultLoop is the for loop over bin(k)[:1:-1], the binary       *)
(* digits of k from the least significant one, and MultIter its body; st   *)
(* holds the loop's variables exists, res and P (P becomes an int when a   *)
(* doubling fails).  The one-element set in MultLoop binds the state after *)
(* an iteration as a value before the next iteration reads it.             *)
(***************************************************************************)
MultIter(ec, bit, st) ==
    LET ad == IF bit = 1
              THEN Add(ec, st.P.pt, st.res.pt, st.h)
              ELSE Returns(TRUE, st.res, 0)
    IN IF ~ad.halts
       THEN [st EXCEPT !.halts = FALSE, !.exists = FALSE, !.inv = @ + ad.inv]
       ELSE IF ~ad.exists
       THEN [st EXCEPT !.exists = FALSE, !.res = ad.val, !.inv = @ + ad.inv]
       ELSE LET db == Double(ec, st.P.pt, st.h + 1)
            IN [halts |-> db.halts, exists |-> db.exists,
                res |-> ad.val, P |-> db.val, h |-> st.h + 2,
                inv |-> st.inv + ad.inv + db.inv]

RECURSIVE MultLoop(_, _, _)
MultLoop(ec, k, st) ==
    IF k = 0 \/ ~st.halts \/ ~st.exists
    THEN st
    ELSE CHOOSE r \in {MultLoop(ec, kn[1], kn[2]) :
                          kn \in {<<k \div 2, MultIter(ec, k % 2, st)>>}} : TRUE

MultRun(ec, Pt, k, h) ==
    LET P1 == IF k < 0 THEN Inverse(Pt, h) ELSE Pt
        k1 == IF k < 0 THEN -k ELSE k
        h1 == h + 1
    IN IF IsCurveInd(P1, identity, k1, h1)
       THEN [halts |-> TRUE, exists |-> TRUE,
             res |-> PtVal(ResCurveInd(P1, identity, k1, h1)),
             P |-> PtVal(P1), h |-> h1, inv |-> 0]
       ELSE MultLoop(ec, k1,
                     [halts |-> TRUE, exists |-> TRUE, res |-> PtVal(identity),
                      P |-> PtVal(P1), h |-> h1, inv |-> 0])

Mult(ec, Pt, k, h) ==
    LET st == MultRun(ec, Pt, k, h)
    IN [halts |-> st.halts, exists |-> st.exists, val |-> st.res,
        inv |-> st.inv]

(***************************************************************************)
(* The search loop's variables while no search is running.                 *)
(***************************************************************************)
NoCall == [op |-> "none"]

NoRet == [status |-> "pending"]

NoSample == [a |-> 0, b |-> 0, drawn |-> FALSE]

LenstraIdle ==
    /\ pc = "idle"
    /\ num = 0
    /\ searching = TRUE
    /\ res = IntVal(0)
    /\ i = 0
    /\ j = 0
    /\ haveCurve = FALSE
    /\ P = identity
    /\ curve = EC(0, 0, 1)
    /\ sample = NoSample
    /\ genCalls = 0
    /\ multCalls = 0
    /\ firstObs = 0
    /\ failedAt = 0

(***************************************************************************)
(* An API function called on its own: `call` is the call made, `ret` its   *)
(* outcome.  modInv is called with every n in -MaxAbsN..MaxAbsN and every  *)
(* modulus in 2..MaxInvMod.                                                *)
(***************************************************************************)
InitAPI ==
    /\ call = NoCall
    /\ ret = NoRet
    /\ LenstraIdle

CallModInv ==
    /\ ret.status = "pending"
    /\ \E n \in (-MaxAbsN)..MaxAbsN : \E m \in 2..MaxInvMod :
         /\ call' = [op |-> "modInv", n |-> n, m |-> m]
         /\ ret' = [status |-> "returned", out |-> ModInv(n, m)]
    /\ UNCHANGED lenstraVars

NextModInv == CallModInv

SpecModInv == InitAPI /\ [][NextModInv]_vars

(***************************************************************************)
(* The group law called on its own.  A caller holds a curve through a      *)
(* point (s, t), built as generateCurvePoint builds it, and passes points  *)
(* of that curve or a point at infinity.  The arguments are the objects 0  *)
(* (the module's `identity`), 1 and 2; FirstRef is the first identity the  *)
(* call itself may give to a new object.                                   *)
(***************************************************************************)
FirstRef == 3

CurveThrough(s, t, a, m) == EC(a, t ^ 2 - s ^ 3 - a * s, m)

OnCurve(ec, x, y) ==
    PyMod(y ^ 2 - (x ^ 3 + ec.a * x + ec.b), ec.modulus) = 0

PointsOn(ec, ref) ==
    {Point(x, y, ec.modulus, ref) :
        <<x, y>> \in {xy \in (0..(ec.modulus - 1)) \X (0..(ec.modulus - 1)) :
                         OnCurve(ec, xy[1], xy[2])}}

Setting(m, s, t, a) ==
    [ec |-> CurveThrough(s, t, a, m), P |-> Point(s, t, m, 1)]

FirstArgs(g) == {g.P, identity, IdPoint(1)}

SecondArgs(g, Pt) == {Pt, identity, IdPoint(2)} \cup PointsOn(g.ec, 2)

AnyPoints(m, ref) ==
    {IdPoint(ref)} \cup {Point(xy[1], xy[2], m, ref) : xy \in (0..(m - 1)) \X (0..(m - 1))}

Outcome(r) ==
    [status |-> IF r.halts THEN "returned" ELSE "diverged", out |-> r]

CallDouble ==
    /\ ret.status = "pending"
    /\ \E m \in 2..MaxMod : \E s, t, a \in 0..(m - 1) :
         \E Pt \in FirstArgs(Setting(m, s, t, a)) :
           LET ec == Setting(m, s, t, a).ec
           IN /\ call' = [op |-> "double", ec |-> ec, P |-> Pt]
              /\ ret' = Outcome(Double(ec, Pt, FirstRef))
    /\ UNCHANGED lenstraVars

CallAdd ==
    /\ ret.status = "pending"
    /\ \E m \in 2..MaxMod : \E s, t, a \in 0..(m - 1) :
         \E Pt \in FirstArgs(Setting(m, s, t, a)) :
           \E Qt \in SecondArgs(Setting(m, s, t, a), Pt) :
             LET ec == Setting(m, s, t, a).ec
             IN /\ call' = [op |-> "add", ec |-> ec, P |-> Pt, Q |-> Qt]
                /\ ret' = Outcome(Add(ec, Pt, Qt, FirstRef))
    /\ UNCHANGED lenstraVars

CallMult ==
    /\ ret.status = "pending"
    /\ \E m \in 2..MaxMod : \E s, t, a \in 0..(m - 1) :
         \E Pt \in FirstArgs(Setting(m, s, t, a)) : \E k \in (-MaxK)..MaxK :
           \E run \in {MultRun(Setting(m, s, t, a).ec, Pt, k, FirstRef)} :
             /\ call' = [op |-> "mult", ec |-> Setting(m, s, t, a).ec,
                         P |-> Pt, k |-> k]
             /\ ret' = [status |-> IF run.halts THEN "returned" ELSE "diverged",
                        out |-> [halts |-> run.halts, exists |-> run.exists,
                                 val |-> run.res, inv |-> run.inv],
                        run |-> run]
    /\ UNCHANGED lenstraVars

(***************************************************************************)
(* A caller computing mult(P, k1), mult(P, k2), mult(P, k1+k2) and, when   *)
(* the first two gave points, add of the two.  Each call gets its own      *)
(* range of object identities.                                             *)
(***************************************************************************)
RECURSIVE BitLength(_)
BitLength(k) == IF k = 0 THEN 0 ELSE 1 + BitLength(k \div 2)

MultRefs(k) == 1 + 2 * BitLength(k)

CallMultSum ==
    /\ ret.status = "pending"
    /\ \E m \in 2..MaxSumMod : \E s, t, a \in 0..(m - 1) :
         \E k1, k2 \in 0..MaxSumK :
           \E g \in {Setting(m, s, t, a)} :
           \E r1 \in {Mult(g.ec, g.P, k1, FirstRef)} :
           \E r2 \in {Mult(g.ec, g.P, k2, FirstRef + MultRefs(k1))} :
           \E r12 \in {Mult(g.ec, g.P, k1 + k2,
                            FirstRef + MultRefs(k1) + MultRefs(k2))} :
           \E addable \in {/\ r1.halts /\ r1.exists /\ r1.val.isPt
                           /\ r2.halts /\ r2.exists /\ r2.val.isPt} :
           \E sum \in {IF addable
                       THEN Add(g.ec, r1.val.pt, r2.val.pt,
                                FirstRef + MultRefs(k1) + MultRefs(k2)
                                         + MultRefs(k1 + k2))
                       ELSE Returns(FALSE, IntVal(0), 0)} :
              /\ call' = [op |-> "multSum", ec |-> g.ec, P |-> g.P,
                          k1 |-> k1, k2 |-> k2]
              /\ ret' = [status |-> IF r1.halts /\ r2.halts /\ r12.halts /\ sum.halts
                                    THEN "returned" ELSE "diverged",
                         r1 |-> r1, r2 |-> r2, r12 |-> r12,
                         added |-> addable, sum |-> sum]
    /\ UNCHANGED lenstraVars

CallEq ==
    /\ ret.status = "pending"
    /\ \E m \in 2..MaxEqMod : \E Pt \in AnyPoints(m, 1) :
         \E Qt \in {Pt} \cup AnyPoints(m, 2) :
           /\ call' = [op |-> "eq", P |-> Pt, Q |-> Qt]
           /\ ret' = [status |-> "returned", out |-> PointEq(Pt, Qt)]
    /\ UNCHANGED lenstraVars

NextEC == CallDouble \/ CallAdd \/ CallMult \/ CallMultSum \/ CallEq

SpecEC == InitAPI /\ [][NextEC]_vars

(***************************************************************************)
(* lenstra.lenstraFactorial with lenstra.generateCurvePoint inlined at its *)
(* call site.  pc is the position in the code:                             *)
(*   "idle"  before line 68          "loop"  at the for of line 72         *)
(*   "gen"   in generateCurvePoint's for loop (lines 28-40)                *)
(*   "mult"  generateCurvePoint has returned, line 76 is next              *)
(*   "done"  returned (line 78)      "raised"  the exception of line 43    *)
(* i counts the iterations of line 72 begun, j the samples drawn by the    *)
(* running generateCurvePoint.  haveCurve, P and curve are the locals of   *)
(* generateCurvePoint, new at each call, and at "mult" the pair it         *)
(* returned.  res is written at line 76 before line 78 can read it, so the *)
(* value a successful mult left in it is dropped when the next iteration   *)
(* begins.  genCalls, multCalls, sample, firstObs and failedAt record the  *)
(* history: the calls made, the coefficients (a, b) last drawn by the      *)
(* running generateCurvePoint, the gcd of the inversion whose failure      *)
(* ended the failing mult and the iteration it happened in.                *)
(***************************************************************************)
Init ==
    /\ \E n \in 2..MaxN : \E bound \in 0..MaxBound :
         \E eo \in 0..MaxEffortObs : \E eg \in 0..MaxEffortGen :
           call = [op |-> "lenstraFactorial", N |-> n, bound |-> bound,
                   effortObs |-> eo, effortGen |-> eg]
    /\ ret = NoRet
    /\ LenstraIdle

\* lines 68-69
Enter ==
    /\ pc = "idle"
    /\ call.op = "lenstraFactorial"
    /\ num' = factorial(call.bound)
    /\ searching' = TRUE
    /\ pc' = "loop"
    /\ UNCHANGED <<call, ret, res, i, j, haveCurve, P, curve, sample,
                   genCalls, multCalls, firstObs, failedAt>>

\* lines 72-75: another iteration, generateCurvePoint is entered (line 27)
LoopEnter ==
    /\ pc = "loop"
    /\ i < call.effortObs
    /\ searching
    /\ i' = i + 1
    /\ j' = 0
    /\ haveCurve' = FALSE
    /\ P' = identity
    /\ curve' = EC(0, 0, 1)
    /\ sample' = NoSample
    /\ res' = IntVal(0)
    /\ genCalls' = genCalls + 1
    /\ pc' = "gen"
    /\ UNCHANGED <<call, ret, num, searching, multCalls, firstObs, failedAt>>

\* lines 72-74 and 78: the range is used up or the break is taken
LoopExit ==
    /\ pc = "loop"
    /\ (i >= call.effortObs \/ ~searching)
    /\ ret' = [status |-> "returned",
               out |-> IF searching THEN IntVal(call.N) ELSE res]
    /\ pc' = "done"
    /\ UNCHANGED <<call, num, searching, res, i, j, haveCurve, P, curve,
                   sample, genCalls, multCalls, firstObs, failedAt>>

\* lines 28-40 and 45: one sample; a smooth one is returned
GenDraw ==
    /\ pc = "gen"
    /\ j < call.effortGen
    /\ \E s, t, a \in 0..(call.N - 1) :
         LET b == PyMod(t ^ 2 - s ^ 3 - a * s, call.N)
         IN /\ sample' = [a |-> a, b |-> b, drawn |-> TRUE]
            /\ j' = j + 1
            /\ IF IsSmooth(a, b, call.N)
               THEN /\ haveCurve' = TRUE
                    /\ P' = Point(s, t, call.N, 1)
                    /\ curve' = EC(a, b, call.N)
                    /\ pc' = "mult"
               ELSE /\ UNCHANGED <<haveCurve, P, curve>>
                    /\ pc' = "gen"
    /\ UNCHANGED <<call, ret, num, searching, res, i, genCalls, multCalls,
                   firstObs, failedAt>>

\* lines 42-43: the range is used up without a smooth curve
GenRaise ==
    /\ pc = "gen"
    /\ j >= call.effortGen
    /\ ~haveCurve
    /\ ret' = [status |-> "raised"]
    /\ pc' = "raised"
    /\ UNCHANGED <<call, num, searching, res, i, j, haveCurve, P, curve,
                   sample, genCalls, multCalls, firstObs, failedAt>>

\* line 76
MultStep ==
    /\ pc = "mult"
    /\ \E run \in {MultRun(curve, P, num, 2)} :
          /\ searching' = run.exists
          /\ res' = run.res
          /\ firstObs' = IF run.exists THEN firstObs
                         ELSE IF ~run.res.isPt THEN run.res.n ELSE run.P.n
          /\ failedAt' = IF run.exists THEN failedAt ELSE i
          /\ pc' = IF run.halts THEN "loop" ELSE "diverged"
    /\ multCalls' = multCalls + 1
    /\ UNCHANGED <<call, ret, num, i, j, haveCurve, P, curve, sample, genCalls>>

Next == Enter \/ LoopEnter \/ LoopExit \/ GenDraw \/ GenRaise \/ MultStep

Spec == Init /\ [][Next]_vars

(***************************************************************************)
(* Notions the properties are stated with, defined apart from the code.    *)
(***************************************************************************)
Abs(n) == IF n < 0 THEN -n ELSE n

DividesBoth(d, a, b) == a % d = 0 /\ b % d = 0

GCD(a, b) ==
    CHOOSE d \in 1..b :
        /\ DividesBoth(d, Abs(a), b)
        /\ \A e \in 1..b : DividesBoth(e, Abs(a), b) => e <= d

IsPrime(n) == n > 1 /\ \A d \in 2..(n - 1) : n % d # 0

Discriminant(a, b) == 64 * a * a * a + 432 * b * b

SamePoint(A, B) ==
    /\ A.ID = B.ID
    /\ ~A.ID => (A.x = B.x /\ A.y = B.y /\ A.modulus = B.modulus)

IsInverseOf(B, A) ==
    /\ ~A.ID /\ ~B.ID
    /\ A.modulus = B.modulus
    /\ A.x = B.x
    /\ (A.y + B.y) % A.modulus = 0

FirstObstruction(run) == IF ~run.res.isPt THEN run.res.n ELSE run.P.n

(***************************************************************************)
(* C5.  modInv(n, m), for any integer n and any modulus m >= 2, returns    *)
(* (True, inv) with 0 <= inv < m and n * inv = 1 (mod m) when              *)
(* gcd(n, m) = 1, and otherwise (False, g) with g = gcd(n mod m, m) > 1.   *)
(***************************************************************************)
C5_ModInvContract ==
    (call.op = "modInv" /\ ret.status = "returned") =>
        IF GCD(call.n, call.m) = 1
        THEN /\ ret.out.exists
             /\ 0 <= ret.out.res /\ ret.out.res < call.m
             /\ (call.n * ret.out.res) % call.m = 1
        ELSE /\ ~ret.out.exists
             /\ ret.out.res = GCD(call.n % call.m, call.m)
             /\ ret.out.res > 1

C5_Witness ==
    /\ call.op = "modInv" /\ ret.status = "returned"
    /\ call.n < -call.m
    /\ GCD(call.n, call.m) = 1
    /\ ret.out.exists
    /\ ret.out.res > 1

(***************************************************************************)
(* C7.  generateCurvePoint(m, effort) draws at most `effort` samples,      *)
(* rejects exactly the samples (a, b) with 64a^3 + 432b^2 = 0 (mod m),     *)
(* returns the first sample that passes, with the point (s, t) on the      *)
(* curve, and raises instead of returning when no sample passes.           *)
(***************************************************************************)
C7_SamplerReturnsSmooth ==
    /\ j <= call.effortGen
    /\ haveCurve =>
          /\ pc \in {"mult", "loop", "done", "diverged"}
          /\ sample.drawn /\ j >= 1
          /\ curve = [a |-> sample.a, b |-> sample.b, modulus |-> call.N]
          /\ Discriminant(curve.a, curve.b) % call.N # 0
          /\ ~P.ID /\ P.modulus = call.N
          /\ (P.y * P.y - (P.x * P.x * P.x + curve.a * P.x + curve.b)) % call.N = 0
    /\ pc = "mult" => haveCurve
    /\ (pc = "gen" /\ sample.drawn) =>
          /\ ~haveCurve
          /\ Discriminant(sample.a, sample.b) % call.N = 0
    /\ pc = "raised" =>
          /\ ~haveCurve
          /\ j = call.effortGen
          /\ sample.drawn => Discriminant(sample.a, sample.b) % call.N = 0

C7_Witness ==
    /\ pc = "mult"
    /\ j = 2
    /\ haveCurve
    /\ Discriminant(curve.a, curve.b) % call.N # 0

(***************************************************************************)
(* C1.  Any value lenstraFactorial(N, ...) returns is an integer d that    *)
(* divides N with 1 < d <= N.                                              *)
(***************************************************************************)
C1_ReturnsDivisor ==
    pc = "done" =>
        /\ ~ret.out.isPt
        /\ 1 < ret.out.n /\ ret.out.n <= call.N
        /\ call.N % ret.out.n = 0

(***************************************************************************)
(* C2.  When mult(P, k) reports failure, the value it returns is the gcd   *)
(* of the first modular inversion that failed in the double-and-add loop,  *)
(* in an add step or in a doubling step, and never the accumulator point.  *)
(***************************************************************************)
C2_ForwardsObstruction ==
    (call.op = "mult" /\ ret.status = "returned" /\ ~ret.out.exists) =>
        /\ ~ret.out.val.isPt
        /\ ret.out.val.n = FirstObstruction(ret.run)
        /\ ret.out.val.n = GCD(ret.out.val.n, call.ec.modulus)

(***************************************************************************)
(* C3.  Over a prime modulus, for a smooth curve, a point P on it and      *)
(* k1, k2 >= 0: mult(P, k1), mult(P, k2) and mult(P, k1+k2) succeed and    *)
(* mult(P, k1+k2) is the same point as add(mult(P, k1), mult(P, k2)).      *)
(***************************************************************************)
C3_MultDistributes ==
    (/\ call.op = "multSum" /\ ret.status # "pending"
     /\ IsPrime(call.ec.modulus)
     /\ Discriminant(call.ec.a, call.ec.b) % call.ec.modulus # 0) =>
        /\ ret.status = "returned"
        /\ ret.r1.exists /\ ret.r2.exists /\ ret.r12.exists
        /\ ret.added /\ ret.sum.exists
        /\ ret.r12.val.isPt /\ ret.sum.val.isPt
        /\ SamePoint(ret.r12.val.pt, ret.sum.val.pt)

(***************************************************************************)
(* C4.  Over a prime modulus, for a non-identity point P of the curve,     *)
(* add(P, P.inverse) succeeds with the identity and attempts no modular    *)
(* inversion.                                                              *)
(***************************************************************************)
C4_AddInverseIsIdentity ==
    (/\ call.op = "add" /\ ret.status # "pending"
     /\ IsPrime(call.ec.modulus)
     /\ ~call.P.ID
     /\ call.Q.ref # call.P.ref
     /\ IsInverseOf(call.Q, call.P)) =>
        /\ ret.status = "returned"
        /\ ret.out.exists
        /\ ret.out.val.isPt /\ ret.out.val.pt.ID
        /\ ret.out.inv = 0

(***************************************************************************)
(* C6.  lenstraFactorial makes at most effortObs attempts, each one fresh  *)
(* generateCurvePoint sample followed by one mult; after the first attempt *)
(* whose mult reports an obstruction nothing more is sampled or            *)
(* multiplied, and that obstruction's value is returned; when every        *)
(* attempt succeeds (also with effortObs = 0) N is returned.               *)
(***************************************************************************)
C6_SearchLoop ==
    /\ i <= call.effortObs
    /\ genCalls = i
    /\ multCalls = IF pc \in {"gen", "mult", "raised"} THEN i - 1 ELSE i
    /\ ~searching => (failedAt = i /\ pc \in {"loop", "done"})
    /\ pc = "done" =>
          IF searching
          THEN i = call.effortObs /\ ret.out = IntVal(call.N)
          ELSE ret.out = IntVal(firstObs)

(***************************************************************************)
(* C8.  For a point P equal to its own inverse (the identity, or y = 0),   *)
(* double(P) succeeds with the identity and attempts no modular inversion. *)
(***************************************************************************)
C8_DoubleSelfInverse ==
    (/\ call.op = "double" /\ ret.status # "pending"
     /\ (call.P.ID \/ call.P.y = 0)) =>
        /\ ret.status = "returned"
        /\ ret.out.exists
        /\ ret.out.val.isPt /\ ret.out.val.pt.ID
        /\ ret.out.inv = 0

(***************************************************************************)
(* C9.  mult(P, k) succeeds without any modular inversion whenever         *)
(* |k| <= 1 or P is the identity: P for k = 1, the identity for k = 0,     *)
(* P.inverse for k = -1, and the identity for every k when P is the        *)
(* identity.                                                               *)
(***************************************************************************)
C9_MultFastPath ==
    (/\ call.op = "mult" /\ ret.status # "pending"
     /\ (Abs(call.k) <= 1 \/ call.P.ID)) =>
        /\ ret.status = "returned"
        /\ ret.out.exists
        /\ ret.out.inv = 0
        /\ ret.out.val.isPt
        /\ SamePoint(ret.out.val.pt,
                     IF call.P.ID \/ call.k = 0 THEN identity
                     ELSE IF call.k = 1 THEN call.P
                     ELSE Inverse(call.P, 0))

(***************************************************************************)
(* C10.  The point equality used by the group law is structural: two       *)
(* points are equal iff both are the identity, or both are not and have    *)
(* equal x, y and modulus, whether or not they are the same object.        *)
(***************************************************************************)
C10_StructuralEquality ==
    (call.op = "eq" /\ ret.status = "returned") =>
        (ret.out <=> SamePoint(call.P, call.Q))

====
